---- MODULE Spec2Model ----
(***************************************************************************)
(* Model of src/inpaint_cropandstitch.py: the nodes InpaintCrop            *)
(* (inpaint_crop, adjust_to_preferred_size) and InpaintStitch              *)
(* (inpaint_stitch, composite).                                            *)
(*                                                                         *)
(* Conventions.  A tensor of one batch element and one channel is a        *)
(* function [0..h-1 -> [0..w-1 -> Int]] together with its shape (h, w),    *)
(* written as the record [h, w, px].  Mask values are numerators over      *)
(* ValueDen (ValueDen stands for 1.0); image values are plain integers.    *)
(* context_expand_factor is given in quarters (4 is 1.0), so that the      *)
(* float arithmetic of the source is exact; blur_radius_pixels is given    *)
(* in tenths.                                                              *)
(***************************************************************************)
EXTENDS Integers, Sequences, FiniteSets, TLC

VARIABLES
    pc,          \* the call in progress and its position
    crop_in,     \* the arguments of inpaint_crop
    crop_out,    \* its locals and results
    stitch_in,   \* the arguments of inpaint_stitch
    stitch_out,  \* composite's locals and the stitched image
    comp_in,     \* the arguments of a direct call of composite
    comp_out,    \* its locals and result
    rc_in,       \* the arguments of adjust_to_preferred_size
    rc_out       \* its result

vars == <<pc, crop_in, crop_out, stitch_in, stitch_out, comp_in, comp_out, rc_in, rc_out>>

\* ------------------------------------------------------------------ bounds

\* Largest image height and width drawn for inpaint_crop.
MaxDim == 4

\* Largest max_dimension drawn for adjust_to_preferred_size.
MaxAxis == 7

\* Largest side of the original image and of the inpainted image drawn for
\* inpaint_stitch.
MaxDst == 3

MaxSrc == 2

\* Largest image side and largest grow_mask_pixels drawn for the mask pipeline.
MorphDim == 5

MaxGrow == 1

\* Largest side and largest multiplier drawn for a direct call of composite.
MaxSide == 2

MaxMult == 2

\* ------------------------------------------------------------ value scale

\* The factor of `dilated_mask.astype(np.float32) * 255`.
ByteScale == 255

\* 1.0 as a mask numerator: 0.5 and 1/510 are numerators too.
ValueDen == 2 * ByteScale

Half == ValueDen \div 2

\* context_expand_factor = 1.0, in quarters.
FactorOne == 4

Max2(a, b) == IF a >= b THEN a ELSE b

Min2(a, b) == IF a <= b THEN a ELSE b

\* torch.clamp(v, 0.0, 1.0) on a numerator.
Clamp01(v) == Max2(0, Min2(v, ValueDen))

\* ---------------------------------------------------------------- tensors

Tensor(h, w, f) ==
    [h |-> h, w |-> w, px |-> [r \in 0..(h - 1) |-> [c \in 0..(w - 1) |-> f[r, c]]]]

\* The index set of a tensor.
Pixels(t) == (0..(t.h - 1)) \X (0..(t.w - 1))

\* Python's normalisation of one end of a slice on an axis of length n.
SliceIndex(i, n) == IF i < 0 THEN Max2(i + n, 0) ELSE Min2(i, n)

\* t[a:b, c:d] with Python's slice semantics (negative ends count from the end).
Slice2D(t, r_from, r_to, c_from, c_to) ==
    LET r0 == SliceIndex(r_from, t.h)
        r1 == SliceIndex(r_to, t.h)
        c0 == SliceIndex(c_from, t.w)
        c1 == SliceIndex(c_to, t.w)
    IN  Tensor(Max2(r1 - r0, 0), Max2(c1 - c0, 0),
               [r \in 0..(Max2(r1 - r0, 0) - 1), c \in 0..(Max2(c1 - c0, 0) - 1) |-> t.px[r0 + r][c0 + c]])

\* ------------------------------------------------------- mask morphology

MaxOfSet(S) == CHOOSE m \in S : \A v \in S : v <= m

MinOfSet(S) == CHOOSE m \in S : \A v \in S : m <= v

\* `mask = 1.0 - mask`.
Invert(t) == Tensor(t.h, t.w, [r \in 0..(t.h - 1), c \in 0..(t.w - 1) |-> ValueDen - t.px[r][c]])

\* scipy.ndimage's boundary mode 'reflect' (d c b a | a b c d | d c b a):
\* the index an out-of-range index i reads on an axis of length n.
RECURSIVE Reflect(_, _)
Reflect(i, n) ==
    IF i < 0 THEN Reflect(-i - 1, n)
    ELSE IF i >= n THEN Reflect(2 * n - 1 - i, n)
    ELSE i

\* The values a (2k+1) x (2k+1) filter window centred on (r, c) reads.
ReflectWindow(t, r, c, k) ==
    { t.px[Reflect(r + dr, t.h)][Reflect(c + dc, t.w)] :
        dr \in (-k)..k, dc \in (-k)..k }

\* grey_dilation(mask_np, footprint=np.ones((2k+1, 2k+1))), default mode.
grey_dilation(t, k) ==
    Tensor(t.h, t.w, [r \in 0..(t.h - 1), c \in 0..(t.w - 1) |-> MaxOfSet(ReflectWindow(t, r, c, k))])

\* The grow step: dilate, scale by 255, clamp to [0, 1].
GrowMask(t, grow_mask_pixels) ==
    LET dilated_mask == grey_dilation(t, grow_mask_pixels)
    IN  Tensor(t.h, t.w, [r \in 0..(t.h - 1), c \in 0..(t.w - 1) |-> Clamp01(dilated_mask.px[r][c] * ByteScale)])

\* The side of the structure np.ones((5, 5)) of the closing.
StructSide == 5

CloseRadius == StructSide \div 2

InImage(h, w, r, c) == r >= 0 /\ r < h /\ c >= 0 /\ c < w

\* binary_dilation with the full square structure, border_value = 0.
binary_dilation(h, w, B) ==
    { p \in (0..(h - 1)) \X (0..(w - 1)) :
        \E dr \in (-CloseRadius)..CloseRadius, dc \in (-CloseRadius)..CloseRadius :
            <<p[1] + dr, p[2] + dc>> \in B }

\* binary_erosion with the full square structure, border_value = 0: a pixel
\* whose window leaves the image is eroded.
binary_erosion(h, w, B) ==
    { p \in (0..(h - 1)) \X (0..(w - 1)) :
        \A dr \in (-CloseRadius)..CloseRadius, dc \in (-CloseRadius)..CloseRadius :
            <<p[1] + dr, p[2] + dc>> \in B }

binary_closing(h, w, B) == binary_erosion(h, w, binary_dilation(h, w, B))

\* The 4-neighbours of p (generate_binary_structure(2, 1)), inside or outside.
Cross(p) == { <<p[1] - 1, p[2]>>, <<p[1] + 1, p[2]>>, <<p[1], p[2] - 1>>, <<p[1], p[2] + 1>> }

\* binary_dilation(zeros, cross, iterations=-1, mask=~input, border_value=1):
\* the background reached from outside the image, grown to its fixed point.
RECURSIVE FloodFromBorder(_, _, _, _)
FloodFromBorder(h, w, background, reached) ==
    LET next == reached \cup
                { p \in background :
                    \E q \in Cross(p) : ~InImage(h, w, q[1], q[2]) \/ q \in reached }
    IN  IF next = reached THEN reached ELSE FloodFromBorder(h, w, background, next)

\* binary_fill_holes: everything the flood from outside does not reach.
binary_fill_holes(h, w, B) ==
    LET all == (0..(h - 1)) \X (0..(w - 1))
    IN  all \ FloodFromBorder(h, w, all \ B, {})

\* The fill-holes step: threshold at > 0, close, fill, scale by 255, clamp.
FillHoles(t) ==
    LET binary_mask == { p \in Pixels(t) : t.px[p[1]][p[2]] > 0 }
        closed_mask == binary_closing(t.h, t.w, binary_mask)
        filled_mask == binary_fill_holes(t.h, t.w, closed_mask)
    IN  Tensor(t.h, t.w,
               [r \in 0..(t.h - 1), c \in 0..(t.w - 1) |-> Clamp01((IF <<r, c>> \in filled_mask THEN 1 ELSE 0) * ByteScale)])

\* gaussian_filter's kernel radius int(truncate * sigma + 0.5) with truncate = 4
\* and sigma = blur_radius_pixels / 2, the radius being given in tenths.
GaussRadius(blur_tenths) == (2 * blur_tenths + 5) \div 10

\* The blur step.  The Gaussian weights are strictly positive and sum to one,
\* so a pixel is the weighted mean of its (reflected) window: the common value
\* where the window is constant, and otherwise a value strictly between the
\* window's minimum and maximum, for which the midpoint (never 0) stands.
BlurMask(t, blur_tenths) ==
    LET k == GaussRadius(blur_tenths)
        mean(S) == IF Cardinality(S) = 1 THEN MaxOfSet(S)
                   ELSE Max2(1, (MinOfSet(S) + MaxOfSet(S)) \div 2)
    IN  Tensor(t.h, t.w, [r \in 0..(t.h - 1), c \in 0..(t.w - 1) |-> Clamp01(mean(ReflectWindow(t, r, c, k)))])

\* `context_mask = optional_context_mask + mask`, clamped.
UnionMask(ctx, t) ==
    Tensor(t.h, t.w, [r \in 0..(t.h - 1), c \in 0..(t.w - 1) |-> Clamp01(ctx.px[r][c] + t.px[r][c])])

\* ------------------------------------------------ adjust_to_preferred_size

\* adjust_to_preferred_size without its second boundary adjustment.
adjust_without_upper_bound(min_val, max_val, max_dimension, preferred_size) ==
    LET center   == (min_val + max_val) \div 2
        new_min0 == center - preferred_size \div 2
        new_max0 == new_min0 + preferred_size - 1
    IN  IF new_min0 < 0 THEN <<0, preferred_size - 1>> ELSE <<new_min0, new_max0>>

\* adjust_to_preferred_size with new_max one too far.
adjust_one_too_wide(min_val, max_val, max_dimension, preferred_size) ==
    LET center   == (min_val + max_val) \div 2
        new_min0 == center - preferred_size \div 2
        new_max0 == new_min0 + preferred_size
        new_min1 == IF new_min0 < 0 THEN 0 ELSE new_min0
        new_max1 == IF new_min0 < 0 THEN preferred_size - 1 ELSE new_max0
        new_max2 == IF new_max1 >= max_dimension THEN max_dimension - 1 ELSE new_max1
        new_min2 == IF new_max1 >= max_dimension
                    THEN new_max2 - preferred_size + 1 ELSE new_min1
    IN  <<new_min2, new_max2>>

adjust_to_preferred_size(min_val, max_val, max_dimension, preferred_size) ==
    LET center   == (min_val + max_val) \div 2
        new_min0 == center - preferred_size \div 2
        new_max0 == new_min0 + preferred_size - 1
        new_min1 == IF new_min0 < 0 THEN 0 ELSE new_min0
        new_max1 == IF new_min0 < 0 THEN preferred_size - 1 ELSE new_max0
        new_max2 == IF new_max1 >= max_dimension THEN max_dimension - 1 ELSE new_max1
        new_min2 == IF new_max1 >= max_dimension
                    THEN new_max2 - preferred_size + 1 ELSE new_min1
    IN  <<new_min2, new_max2>>

\* ------------------------------------------------------------ inpaint_crop

\* Python's round() of the exact fraction n / d (ties go to the even integer).
RoundHalfEven(n, d) ==
    LET q == n \div d
        rem == n % d
    IN  IF 2 * rem < d THEN q
        ELSE IF 2 * rem > d THEN q + 1
        ELSE IF q % 2 = 0 THEN q ELSE q + 1

\* round(max(size * (context_expand_factor - 1), context_expand_pixels)),
\* the factor in quarters.
GrowAmount(size, factor_q, context_expand_pixels) ==
    RoundHalfEven(Max2(size * (factor_q - FactorOne), FactorOne * context_expand_pixels),
                  FactorOne)

\* list.sort() on the parsed preferred sizes.
RECURSIVE SortSizes(_)
SortSizes(sizes) ==
    IF sizes = <<>> THEN <<>>
    ELSE LET m == MinOfSet({ sizes[i] : i \in 1..Len(sizes) })
             k == MinOfSet({ i \in 1..Len(sizes) : sizes[i] = m })
         IN  <<m>> \o SortSizes(SubSeq(sizes, 1, k - 1) \o SubSeq(sizes, k + 1, Len(sizes)))

\* next((size for size in preferred_sizes_parsed if size > cur), None),
\* then `if preferred is None: preferred = cur`.
PreferredOr(sorted_sizes, cur) ==
    LET hits == { i \in 1..Len(sorted_sizes) : sorted_sizes[i] > cur }
    IN  IF hits = {} THEN cur ELSE sorted_sizes[MinOfSet(hits)]

\* The mask after invert, grow, fill holes and blur, with the grown mask kept.
ProcessMask(in) ==
    LET m1 == IF in.invert_mask THEN Invert(in.mask) ELSE in.mask
        m2 == IF in.grow_mask_pixels > 0 THEN GrowMask(m1, in.grow_mask_pixels) ELSE m1
        m3 == IF in.fill_holes THEN FillHoles(m2) ELSE m2
        m4 == IF in.blur_radius_pixels > 0 THEN BlurMask(m3, in.blur_radius_pixels) ELSE m3
    IN  [inverted |-> m1, grown |-> m2, mask |-> m4]

\* The sizes the two adjustment branches recentre to, before the clamp to the
\* image: <<preferred_x_size, preferred_y_size>>.
ChosenSizes(in, x_size, y_size) ==
    IF in.adjust_to_preferred_sizes
    THEN LET sorted == SortSizes(in.preferred_sizes)
             px == PreferredOr(sorted, x_size)
             py == PreferredOr(sorted, y_size)
         IN  IF in.prefer_square_size
             THEN <<Max2(px, py), Max2(px, py)>>
             ELSE <<px, py>>
    ELSE <<Max2(x_size, y_size), Max2(x_size, y_size)>>

\* The stitch descriptor with its offsets exchanged.
MakeStitchSwapped(x, y, original_image, cropped_mask) ==
    [x |-> y, y |-> x, original_image |-> original_image, cropped_mask |-> cropped_mask]

\* The stitch descriptor.
MakeStitch(x, y, original_image, cropped_mask) ==
    [x |-> x, y |-> y, original_image |-> original_image, cropped_mask |-> cropped_mask]

\* The effective context mask: `optional_context_mask + mask`, or the mask.
ContextMask(in, mask) ==
    IF in.has_context_mask THEN UnionMask(in.optional_context_mask, mask) ELSE mask

\* torch.nonzero(context_mask[0], as_tuple=True).
NonZero(context_mask) ==
    { p \in Pixels(context_mask) : context_mask.px[p[1]][p[2]] # 0 }

\* The tight bounding box <<y_min, y_max, x_min, x_max>> of the non-zero pixels.
TightBox(non_zero) ==
    << MinOfSet({ p[1] : p \in non_zero }), MaxOfSet({ p[1] : p \in non_zero }),
       MinOfSet({ p[2] : p \in non_zero }), MaxOfSet({ p[2] : p \in non_zero }) >>

\* One axis of "grow context area": <<min, max>> grown by grow // 2 on each
\* side and cut to [0, dimension - 1].
GrowAxis(in, min_val, max_val, dimension) ==
    LET grow == GrowAmount(max_val - min_val + 1, in.context_expand_factor,
                           in.context_expand_pixels)
    IN  << Max2(min_val - grow \div 2, 0), Min2(max_val + grow \div 2, dimension - 1) >>

\* `if preferred_x_size > width: preferred_x_size = width`, and for y.
TargetSizes(chosen, width, height) ==
    << IF chosen[1] > width THEN width ELSE chosen[1],
       IF chosen[2] > height THEN height ELSE chosen[2] >>

\* The box after the adjustment branches: recentred on both axes when either
\* option is set, the grown box otherwise.
FinalBox(in, grown, target, width, height) ==
    IF in.adjust_to_preferred_sizes \/ in.prefer_square_size
    THEN LET xs == adjust_to_preferred_size(grown[3], grown[4], width, target[1])
             ys == adjust_to_preferred_size(grown[1], grown[2], height, target[2])
         IN  <<ys[1], ys[2], xs[1], xs[2]>>
    ELSE grown

\* inpaint_crop from the tight bounding box on: the sizes, the grown box, the
\* adjusted box, the crop and the stitch descriptor.
CropBox(in, pm, context_mask, tight) ==
    LET height == context_mask.h
        width == context_mask.w
        y_size == tight[2] - tight[1] + 1
        x_size == tight[4] - tight[3] + 1
        gy == GrowAxis(in, tight[1], tight[2], height)
        gx == GrowAxis(in, tight[3], tight[4], width)
        adjust == in.adjust_to_preferred_sizes \/ in.prefer_square_size
        chosen == ChosenSizes(in, x_size, y_size)
        target == TargetSizes(chosen, width, height)
        box == FinalBox(in, <<gy[1], gy[2], gx[1], gx[2]>>, target, width, height)
        cropped_mask == Slice2D(pm.mask, box[1], box[2] + 1, box[3], box[4] + 1)
    IN  [passthrough |-> FALSE, grown_mask |-> pm.grown, context_mask |-> context_mask,
         tight |-> tight, x_size |-> x_size, y_size |-> y_size,
         grown_box |-> <<gy[1], gy[2], gx[1], gx[2]>>,
         chosen |-> IF adjust THEN chosen ELSE <<0, 0>>,
         target |-> IF adjust THEN target ELSE <<0, 0>>,
         box |-> box,
         stitch |-> MakeStitch(box[3], box[1], in.image, cropped_mask),
         cropped_image |-> Slice2D(in.image, box[1], box[2] + 1, box[3], box[4] + 1),
         cropped_mask |-> cropped_mask]

\* The return of inpaint_crop when the context mask has no non-zero element.
PassThrough(in, pm, context_mask) ==
    [passthrough |-> TRUE, grown_mask |-> pm.grown, context_mask |-> context_mask,
     tight |-> <<0, 0, 0, 0>>, x_size |-> 0, y_size |-> 0,
     grown_box |-> <<0, 0, 0, 0>>, chosen |-> <<0, 0>>, target |-> <<0, 0>>,
     box |-> <<0, 0, 0, 0>>,
     stitch |-> MakeStitch(0, 0, in.image, pm.mask),
     cropped_image |-> in.image, cropped_mask |-> pm.mask]

\* inpaint_crop once the mask pipeline has run.
CropWithMask(in, pm) ==
    LET context_mask == ContextMask(in, pm.mask)
        non_zero == NonZero(context_mask)
    IN  IF non_zero = {}
        THEN PassThrough(in, pm, context_mask)
        ELSE CHOOSE out \in { CropBox(in, pm, context_mask, tight) :
                                tight \in {TightBox(non_zero)} } : TRUE

\* The result record holds the locals the properties speak of beside the three
\* returned values.  (The processed mask and the tight box are bound once.)
inpaint_crop(in) ==
    CHOOSE out \in { CropWithMask(in, pm) : pm \in {ProcessMask(in)} } : TRUE

\* ----------------------------------------------------- composite, stitch

\* torch.nn.functional.interpolate(t, size=(oh, ow), mode="bilinear") with
\* align_corners=False: the source coordinate of output index i is
\* max(0, (i + 0.5) * in / out - 0.5), kept here as the numerator over 2 * out.
\* The quotient is exact when the sizes agree (every weight is then 0 or 1).
Interpolate(t, oh, ow) ==
    LET ny(r) == Max2(0, (2 * r + 1) * t.h - oh)
        nx(c) == Max2(0, (2 * c + 1) * t.w - ow)
        dy == 2 * oh
        dx == 2 * ow
        y0(r) == ny(r) \div dy
        x0(c) == nx(c) \div dx
        y1(r) == Min2(y0(r) + 1, t.h - 1)
        x1(c) == Min2(x0(c) + 1, t.w - 1)
        ly(r) == ny(r) % dy
        lx(c) == nx(c) % dx
    IN  Tensor(oh, ow,
               [r \in 0..(oh - 1), c \in 0..(ow - 1) |->
                 ( (dy - ly(r)) * ( (dx - lx(c)) * t.px[y0(r)][x0(c)]
                                    + lx(c) * t.px[y0(r)][x1(c)] )
                   + ly(r) * ( (dx - lx(c)) * t.px[y1(r)][x0(c)]
                               + lx(c) * t.px[y1(r)][x1(c)] ) ) \div (dy * dx)])

\* Whether two sizes of one axis broadcast against each other.
Broadcastable(a, b) == a = b \/ a = 1 \/ b = 1

BroadcastSize(a, b) == IF a = 1 THEN b ELSE a

\* The index a broadcast operand of size n reads for result index i.
BroadcastIndex(i, n) == IF n = 1 THEN 0 ELSE i

\* composite without the clamp of an offset.
OffsetUnclamped(v, source_size, destination_size, multiplier) == v

\* The clamp of one offset: max(-source * multiplier, min(v, destination * multiplier)).
ClampOffset(v, source_size, destination_size, multiplier) ==
    Max2(-source_size * multiplier, Min2(v, destination_size * multiplier))

\* The blend with the mask in place of the inverse mask.
BlendWithoutInverse(m, s, d) == (m * s + m * d) \div ValueDen

\* One pixel of `mask * source + (ones - mask) * destination`.
Blend(m, s, d) == (m * s + (ValueDen - m) * d) \div ValueDen

\* The record `ok` is FALSE when a tensor operation of the call raises (shapes
\* that do not broadcast); no image is returned then.
composite(destination, source0, x0, y0, has_mask, mask0, multiplier, resize_source) ==
    LET source == IF resize_source
                  THEN Interpolate(source0, destination.h, destination.w) ELSE source0
        x == ClampOffset(x0, source.w, destination.w, multiplier)
        y == ClampOffset(y0, source.h, destination.h, multiplier)
        left == x \div multiplier
        top == y \div multiplier
        right == left + source.w
        bottom == top + source.h
        mask1 == IF has_mask THEN Interpolate(mask0, source.h, source.w)
                 ELSE Tensor(source.h, source.w, [r \in 0..(source.h - 1), c \in 0..(source.w - 1) |-> ValueDen])
        visible_width == destination.w - left + Min2(0, x)
        visible_height == destination.h - top + Min2(0, y)
        mask == Slice2D(mask1, 0, visible_height, 0, visible_width)
        source_vis == Slice2D(source, 0, visible_height, 0, visible_width)
        r0 == SliceIndex(top, destination.h)
        r1 == SliceIndex(bottom, destination.h)
        c0 == SliceIndex(left, destination.w)
        c1 == SliceIndex(right, destination.w)
        region == Slice2D(destination, top, bottom, left, right)
        \* inverse_mask * destination[:, :, top:bottom, left:right]
        mul_ok == Broadcastable(mask.h, region.h) /\ Broadcastable(mask.w, region.w)
        ph == BroadcastSize(mask.h, region.h)
        pw == BroadcastSize(mask.w, region.w)
        \* source_portion + destination_portion
        sh == BroadcastSize(mask.h, ph)
        sw == BroadcastSize(mask.w, pw)
        blend(r, c) ==
            LET mr == BroadcastIndex(r, mask.h)
                mc == BroadcastIndex(c, mask.w)
                m == mask.px[mr][mc]
                d == region.px[BroadcastIndex(r, region.h)][BroadcastIndex(c, region.w)]
            IN  Blend(m, source_vis.px[mr][mc], d)
        \* destination[:, :, top:bottom, left:right] = ...
        set_ok == (sh = region.h \/ sh = 1) /\ (sw = region.w \/ sw = 1)
        ok == mul_ok /\ set_ok
        image == Tensor(destination.h, destination.w,
                        [r \in 0..(destination.h - 1), c \in 0..(destination.w - 1) |->
                          IF r >= r0 /\ r < r1 /\ c >= c0 /\ c < c1
                          THEN blend(BroadcastIndex(r - r0, sh), BroadcastIndex(c - c0, sw))
                          ELSE destination.px[r][c]])
    IN  [ok |-> ok, x |-> x, y |-> y, left |-> left, top |-> top,
         right |-> right, bottom |-> bottom,
         visible_width |-> visible_width, visible_height |-> visible_height,
         source_w |-> source.w, source_h |-> source.h,
         image |-> IF ok THEN image ELSE destination]

inpaint_stitch(stitch, inpainted_image) ==
    composite(stitch.original_image, inpainted_image, stitch.x, stitch.y,
              TRUE, stitch.cropped_mask, 1, FALSE)

\* ---------------------------------------------------------- the machine

None == [none |-> TRUE]

\* An image whose pixels are pairwise distinct (and even, so that a blend
\* with weight one half is an integer).
Picture(h, w, base) == Tensor(h, w, [r \in 0..(h - 1), c \in 0..(w - 1) |-> base + 2 * (r * w + c)])

OriginalImage(h, w) == Picture(h, w, 2)

\* An inpainted image that differs from the original at every pixel.
InpaintedImage(h, w) == Picture(h, w, 100)

\* The mask that is v on the pixels of P and 0 elsewhere.
PointMask(h, w, P, v) == Tensor(h, w, [r \in 0..(h - 1), c \in 0..(w - 1) |-> IF <<r, c>> \in P THEN v ELSE 0])

\* The sets of at most two pixels of an h x w image.
PointSets(h, w) ==
    {{}} \cup { {p, q} : p \in (0..(h - 1)) \X (0..(w - 1)),
                         q \in (0..(h - 1)) \X (0..(w - 1)) }

\* The arguments of a call of inpaint_crop: the image, the mask, the box
\* parameters, the mask parameters and the optional context mask.
CropArgs(mask, box, morph, ctx) ==
    [image |-> OriginalImage(mask.h, mask.w), mask |-> mask,
     context_expand_pixels |-> box.pixels, context_expand_factor |-> box.factor,
     invert_mask |-> morph.invert, grow_mask_pixels |-> morph.grow,
     fill_holes |-> morph.fill, blur_radius_pixels |-> morph.blur,
     adjust_to_preferred_sizes |-> box.adjust, preferred_sizes |-> box.sizes,
     prefer_square_size |-> box.square,
     has_context_mask |-> ctx.has, optional_context_mask |-> ctx.mask]

\* The mask taken as it is: no invert, grow, fill holes or blur.
PlainMorph == [invert |-> FALSE, grow |-> 0, fill |-> FALSE, blur |-> 0]

NoContextMask(h, w) == [has |-> FALSE, mask |-> Tensor(h, w, [r \in 0..(h - 1), c \in 0..(w - 1) |-> 0])]

\* context_expand_pixels, context_expand_factor (quarters) and preferred_sizes
\* (as parsed by int() from the comma-separated string) drawn for the box.
ExpandPixels == {0, 1, 4}

ExpandFactors == {4, 6}

PreferredLists == { <<4, 2>>, <<3>> }

\* Calls of inpaint_crop that exercise the context box: binary masks of at most
\* two pixels (every tight bounding box arises), the mask taken as it is.
InitBox ==
    /\ pc = "crop"
    /\ \E h \in 1..MaxDim, w \in 1..MaxDim :
         \E P \in PointSets(h, w), pixels \in ExpandPixels, factor_q \in ExpandFactors,
            adjust \in BOOLEAN, square \in BOOLEAN, sizes \in PreferredLists :
            crop_in = CropArgs(PointMask(h, w, P, ValueDen),
                               [pixels |-> pixels, factor |-> factor_q, adjust |-> adjust,
                                sizes |-> sizes, square |-> square],
                               PlainMorph, NoContextMask(h, w))
    /\ crop_out = None
    /\ stitch_in = None /\ stitch_out = None
    /\ comp_in = None /\ comp_out = None
    /\ rc_in = None /\ rc_out = None

\* The handler inpaint_crop.
InpaintCropStep ==
    /\ pc = "crop"
    /\ crop_out' = inpaint_crop(crop_in)
    /\ pc' = "cropped"
    /\ UNCHANGED <<crop_in, stitch_in, stitch_out, comp_in, comp_out, rc_in, rc_out>>

\* The stage between the nodes hands the crop back unmodified, with an
\* all-ones blend mask in the stitch descriptor.
ReturnCropUnmodified ==
    /\ pc = "cropped"
    /\ stitch_in' =
         [stitch |-> [crop_out.stitch EXCEPT
                        !.cropped_mask = Tensor(crop_out.cropped_mask.h,
                                                crop_out.cropped_mask.w,
                                                [r \in 0..(crop_out.cropped_mask.h - 1), c \in 0..(crop_out.cropped_mask.w - 1) |-> ValueDen])],
          inpainted_image |-> crop_out.cropped_image]
    /\ pc' = "stitch"
    /\ UNCHANGED <<crop_in, crop_out, stitch_out, comp_in, comp_out, rc_in, rc_out>>

\* The handler inpaint_stitch.
InpaintStitchStep ==
    /\ pc = "stitch"
    /\ stitch_out' = inpaint_stitch(stitch_in.stitch, stitch_in.inpainted_image)
    /\ pc' = "stitched"
    /\ UNCHANGED <<crop_in, crop_out, stitch_in, comp_in, comp_out, rc_in, rc_out>>

Next == InpaintCropStep \/ ReturnCropUnmodified \/ InpaintStitchStep

Spec == InitBox /\ [][Next]_vars

\* ----------------------------------------------- the mask pipeline's calls

MaskValues == {1, Half, ValueDen}

\* blur_radius_pixels, in tenths.
BlurRadii == {0, 10}

\* The mask that is v on the pixels of P and bg elsewhere.
TwoLevelMask(h, w, P, v, bg) ==
    Tensor(h, w, [r \in 0..(h - 1), c \in 0..(w - 1) |-> IF <<r, c>> \in P THEN v ELSE bg])

SinglePoints(h, w) == {{}} \cup { {p} : p \in (0..(h - 1)) \X (0..(w - 1)) }

\* optional_context_mask: absent, all zero, or the top-left pixel alone.
ContextMasks(h, w) ==
    { NoContextMask(h, w),
      [has |-> TRUE, mask |-> PointMask(h, w, {}, 0)],
      [has |-> TRUE, mask |-> PointMask(h, w, {<<0, 0>>}, ValueDen)] }

\* Calls of inpaint_crop that exercise invert, grow, fill holes, blur and the
\* optional context mask, on soft masks (values 1/510, 0.5 and 1.0).
InitMorph ==
    /\ pc = "crop"
    /\ \E h \in 1..MorphDim, w \in 1..MorphDim :
         \E P \in SinglePoints(h, w), v \in MaskValues, bg \in {0, ValueDen},
            invert \in BOOLEAN, grow \in 0..MaxGrow, fill \in BOOLEAN,
            blur \in BlurRadii, ctx \in ContextMasks(h, w) :
            crop_in = CropArgs(TwoLevelMask(h, w, P, v, bg),
                               [pixels |-> 1, factor |-> FactorOne, adjust |-> FALSE,
                                sizes |-> <<2>>, square |-> FALSE],
                               [invert |-> invert, grow |-> grow, fill |-> fill,
                                blur |-> blur],
                               ctx)
    /\ crop_out = None
    /\ stitch_in = None /\ stitch_out = None
    /\ comp_in = None /\ comp_out = None
    /\ rc_in = None /\ rc_out = None

SpecMorph == InitMorph /\ [][Next]_vars

\* ------------------------------------------------------------ properties

Cropped == pc \in {"cropped", "stitch", "stitched"} /\ crop_out # None

BoxRows(b) == b[2] - b[1] + 1

BoxCols(b) == b[4] - b[3] + 1

\* C4: after inpaint_crop on a non-empty effective context mask, the box used
\* to slice satisfies 0 <= y_min <= y_max < H and 0 <= x_min <= x_max < W.
ContextBoxInBounds ==
    (Cropped /\ ~crop_out.passthrough) =>
        /\ 0 <= crop_out.box[1] /\ crop_out.box[1] <= crop_out.box[2]
        /\ crop_out.box[2] < crop_in.mask.h
        /\ 0 <= crop_out.box[3] /\ crop_out.box[3] <= crop_out.box[4]
        /\ crop_out.box[4] < crop_in.mask.w

\* A crop whose chosen size exceeded the image width and was clamped to it, and
\* whose grown box had been cut at the border.
ContextBoxClampedWitness ==
    /\ Cropped /\ ~crop_out.passthrough
    /\ crop_in.adjust_to_preferred_sizes
    /\ crop_out.chosen[1] > crop_in.mask.w
    /\ crop_out.grown_box[1] = 0
    /\ crop_in.context_expand_pixels > 0

\* C10: the final box contains the tight bounding box of the effective context
\* mask's non-zero pixels.
BoxContainsMask ==
    (Cropped /\ ~crop_out.passthrough) =>
        /\ crop_out.box[1] <= crop_out.tight[1] /\ crop_out.tight[2] <= crop_out.box[2]
        /\ crop_out.box[3] <= crop_out.tight[3] /\ crop_out.tight[4] <= crop_out.box[4]

\* The smallest preferred size strictly greater than cur, or fallback.
SmallestGreater(sizes, cur, fallback) ==
    LET larger == { v \in { sizes[i] : i \in 1..Len(sizes) } : v > cur }
    IN  IF larger = {} THEN fallback ELSE MinOfSet(larger)

\* C5: with adjust_to_preferred_sizes enabled and prefer_square_size disabled,
\* the size chosen for an axis before the clamp to the image is the smallest
\* preferred size strictly greater than the axis's tight size, and the grown
\* size of the axis when no preferred size is greater.
PreferredSizeKeepsGrown ==
    (Cropped /\ ~crop_out.passthrough
       /\ crop_in.adjust_to_preferred_sizes /\ ~crop_in.prefer_square_size) =>
        /\ crop_out.chosen[1] = SmallestGreater(crop_in.preferred_sizes, crop_out.x_size,
                                                BoxCols(crop_out.grown_box))
        /\ crop_out.chosen[2] = SmallestGreater(crop_in.preferred_sizes, crop_out.y_size,
                                                BoxRows(crop_out.grown_box))

\* C6: with prefer_square_size enabled and adjust_to_preferred_sizes disabled,
\* both target sizes are the larger of the two grown sizes, each clamped to
\* the image dimension of its axis, and the final box has that many pixels on
\* each axis.
SquareUsesGrownSizes ==
    (Cropped /\ ~crop_out.passthrough
       /\ crop_in.prefer_square_size /\ ~crop_in.adjust_to_preferred_sizes) =>
        LET side == Max2(BoxCols(crop_out.grown_box), BoxRows(crop_out.grown_box))
        IN  /\ crop_out.target = <<Min2(side, crop_in.mask.w), Min2(side, crop_in.mask.h)>>
            /\ BoxCols(crop_out.box) = crop_out.target[1]
            /\ BoxRows(crop_out.box) = crop_out.target[2]

\* C1: the crop fed back unmodified, at the descriptor's offset and with an
\* all-ones blend mask, stitches to the original image at every pixel.
RoundTripRestoresImage ==
    pc = "stitched" =>
        /\ stitch_out.ok
        /\ stitch_out.image = crop_in.image

\* A round trip of a crop that is a proper part of the image, away from its
\* top-left corner.
RoundTripWitness ==
    /\ pc = "stitched" /\ crop_out # None /\ ~crop_out.passthrough
    /\ stitch_in.stitch.x > 0 /\ stitch_in.stitch.y > 0
    /\ stitch_in.inpainted_image.h < crop_in.image.h
    /\ stitch_in.inpainted_image.w < crop_in.image.w
    /\ stitch_in.inpainted_image.w > 1

AllZero(t) == \A p \in Pixels(t) : t.px[p[1]][p[2]] = 0

\* C3: when the effective context mask has no non-zero element, inpaint_crop
\* returns the input image, the input mask unchanged, and the offset (0, 0).
EmptyMaskPassThrough ==
    (Cropped /\ AllZero(crop_out.context_mask)) =>
        /\ crop_out.cropped_image = crop_in.image
        /\ crop_out.cropped_mask = crop_in.mask
        /\ crop_out.stitch.x = 0 /\ crop_out.stitch.y = 0

\* The maximum of t over the (2k+1) x (2k+1) window centred on (r, c),
\* restricted to the image.
WindowMax(t, r, c, k) ==
    MaxOfSet({ t.px[p[1]][p[2]] :
                 p \in { q \in Pixels(t) : q[1] >= r - k /\ q[1] <= r + k
                                           /\ q[2] >= c - k /\ q[2] <= c + k } })

\* C9: for grow_mask_pixels = k > 0 each pixel of the grown mask is the maximum
\* of the grow step's input over the window centred on it, for soft masks too.
GrowIsGreyDilation ==
    (Cropped /\ crop_in.grow_mask_pixels > 0) =>
        LET input == IF crop_in.invert_mask THEN Invert(crop_in.mask) ELSE crop_in.mask
        IN  \A p \in Pixels(input) :
                crop_out.grown_mask.px[p[1]][p[2]]
                    = WindowMax(input, p[1], p[2], crop_in.grow_mask_pixels)

\* ------------------------------------------------ calls of inpaint_stitch

BlendWeights == {0, Half, ValueDen}

\* Any stitch descriptor with a non-negative offset (inside the original image
\* or beyond it) and a blend mask of any size, with an inpainted image of the
\* mask's size.
InitStitch ==
    /\ pc = "stitch"
    /\ \E dh \in 1..MaxDst, dw \in 1..MaxDst, sh \in 1..MaxSrc, sw \in 1..MaxSrc :
         \E x \in 0..(MaxDst + 1), y \in 0..(MaxDst + 1),
            P \in SinglePoints(sh, sw), v \in BlendWeights, bg \in {0, ValueDen} :
            stitch_in = [stitch |-> MakeStitch(x, y, OriginalImage(dh, dw),
                                               TwoLevelMask(sh, sw, P, v, bg)),
                         inpainted_image |-> InpaintedImage(sh, sw)]
    /\ stitch_out = None
    /\ crop_in = None /\ crop_out = None
    /\ comp_in = None /\ comp_out = None
    /\ rc_in = None /\ rc_out = None

NextStitch == InpaintStitchStep

SpecStitch == InitStitch /\ [][NextStitch]_vars

\* C2: the stitched image equals the original outside the pasted rectangle and
\* where the blend weight is 0, and equals the inpainted image where it is 1.
StitchKeepsUnmasked ==
    pc = "stitched" =>
        LET st == stitch_in.stitch
            src == stitch_in.inpainted_image
        IN  /\ stitch_out.ok
            /\ stitch_out.image.h = st.original_image.h
            /\ stitch_out.image.w = st.original_image.w
            /\ \A p \in Pixels(st.original_image) :
                 LET r == p[1] - st.y
                     c == p[2] - st.x
                     inside == r >= 0 /\ r < src.h /\ c >= 0 /\ c < src.w
                 IN  /\ ~inside => stitch_out.image.px[p[1]][p[2]]
                                     = st.original_image.px[p[1]][p[2]]
                     /\ (inside /\ st.cropped_mask.px[r][c] = 0) =>
                            stitch_out.image.px[p[1]][p[2]]
                              = st.original_image.px[p[1]][p[2]]
                     /\ (inside /\ st.cropped_mask.px[r][c] = ValueDen) =>
                            stitch_out.image.px[p[1]][p[2]] = src.px[r][c]

\* A stitch whose rectangle lies partly beyond the image, with a pixel of
\* weight 0 and a pixel of weight 1 both inside the image.
StitchWitness ==
    /\ pc = "stitched" /\ stitch_out.ok
    /\ LET st == stitch_in.stitch
       IN  /\ st.x > 0 /\ st.x + st.cropped_mask.w > st.original_image.w
           /\ st.x < st.original_image.w /\ st.y + 1 < st.original_image.h
           /\ st.cropped_mask.h > 1
           /\ st.cropped_mask.px[0][0] = 0 /\ st.cropped_mask.px[1][0] = ValueDen
           /\ stitch_out.image.px[st.y][st.x] = st.original_image.px[st.y][st.x]
           /\ stitch_out.image.px[st.y + 1][st.x] = stitch_in.inpainted_image.px[1][0]

\* ------------------------------------------------ direct calls of composite

\* Offsets from well below -source * multiplier to well above
\* destination * multiplier.
CompositeOffsets == (-(MaxSide * MaxMult) - 1)..(MaxSide * MaxMult + 1)

InitComposite ==
    /\ pc = "composite"
    /\ \E dh \in 1..MaxSide, dw \in 1..MaxSide, sh \in 1..MaxSide, sw \in 1..MaxSide :
         \E x \in CompositeOffsets, y \in CompositeOffsets, multiplier \in 1..MaxMult,
            has_mask \in BOOLEAN, resize_source \in BOOLEAN :
            comp_in = [destination |-> OriginalImage(dh, dw),
                       source |-> InpaintedImage(sh, sw),
                       x |-> x, y |-> y, has_mask |-> has_mask,
                       mask |-> TwoLevelMask(sh, sw, {}, 0, Half),
                       multiplier |-> multiplier, resize_source |-> resize_source]
    /\ comp_out = None
    /\ crop_in = None /\ crop_out = None
    /\ stitch_in = None /\ stitch_out = None
    /\ rc_in = None /\ rc_out = None

\* The function composite, called on its own.
CompositeStep ==
    /\ pc = "composite"
    /\ comp_out' = composite(comp_in.destination, comp_in.source, comp_in.x, comp_in.y,
                             comp_in.has_mask, comp_in.mask, comp_in.multiplier,
                             comp_in.resize_source)
    /\ pc' = "composited"
    /\ UNCHANGED <<crop_in, crop_out, stitch_in, stitch_out, comp_in, rc_in, rc_out>>

NextComposite == CompositeStep

SpecComposite == InitComposite /\ [][NextComposite]_vars

\* The placed source rectangle and the destination share a pixel.
Overlaps(o, destination) ==
    /\ o.left < destination.w /\ o.left + o.source_w > 0
    /\ o.top < destination.h /\ o.top + o.source_h > 0

\* C8 as stated: after the clamp the placed source rectangle overlaps the
\* destination in at least one pixel.
ClampLeavesOverlap ==
    pc = "composited" => Overlaps(comp_out, comp_in.destination)

\* C8 as amended: after the clamp the placed source rectangle overlaps the
\* destination or abuts it (-source_width <= left <= destination_width, and
\* likewise for top), and it overlaps in at least one pixel whenever the given
\* offset satisfies (1 - source_width) * multiplier <= x <
\* destination_width * multiplier, and likewise for y.
ClampLeavesOverlapOrAbuts ==
    pc = "composited" =>
        /\ -comp_out.source_w <= comp_out.left
        /\ comp_out.left <= comp_in.destination.w
        /\ -comp_out.source_h <= comp_out.top
        /\ comp_out.top <= comp_in.destination.h
        /\ ( /\ (1 - comp_out.source_w) * comp_in.multiplier <= comp_in.x
             /\ comp_in.x < comp_in.destination.w * comp_in.multiplier
             /\ (1 - comp_out.source_h) * comp_in.multiplier <= comp_in.y
             /\ comp_in.y < comp_in.destination.h * comp_in.multiplier )
           => Overlaps(comp_out, comp_in.destination)

\* An offset far beyond the destination, clamped to abut it without overlap.
ClampAbutsWitness ==
    /\ pc = "composited"
    /\ comp_in.multiplier > 1
    /\ comp_in.x > comp_in.destination.w * comp_in.multiplier
    /\ comp_in.y < -comp_in.source.h * comp_in.multiplier
    /\ comp_out.left = comp_in.destination.w
    /\ comp_out.top = -comp_out.source_h
    /\ ~Overlaps(comp_out, comp_in.destination)

\* ------------------------------------ calls of adjust_to_preferred_size

InitRecenter ==
    /\ pc = "recenter"
    /\ \E max_dimension \in 1..MaxAxis :
         \E min_val \in 0..(max_dimension - 1), max_val \in 0..(max_dimension - 1),
            preferred_size \in 1..max_dimension :
            /\ min_val <= max_val
            /\ rc_in = [min_val |-> min_val, max_val |-> max_val,
                        max_dimension |-> max_dimension,
                        preferred_size |-> preferred_size]
    /\ rc_out = None
    /\ crop_in = None /\ crop_out = None
    /\ stitch_in = None /\ stitch_out = None
    /\ comp_in = None /\ comp_out = None

RecenterStep ==
    /\ pc = "recenter"
    /\ rc_out' = adjust_to_preferred_size(rc_in.min_val, rc_in.max_val,
                                          rc_in.max_dimension, rc_in.preferred_size)
    /\ pc' = "recentered"
    /\ UNCHANGED <<crop_in, crop_out, stitch_in, stitch_out, comp_in, comp_out, rc_in>>

NextRecenter == RecenterStep

SpecRecenter == InitRecenter /\ [][NextRecenter]_vars

\* C7: for 0 <= min <= max < dimension and 1 <= target <= dimension the result
\* has exactly target pixels, lies within [0, dimension), and keeps the centred
\* placement (min+max)//2 - target//2 whenever that placement is within bounds;
\* (100, 200, 1000, 50) gives (125, 174) and (100, 200, 140, 50) gives (90, 139).
RecenterExactAndInBounds ==
    /\ adjust_to_preferred_size(100, 200, 1000, 50) = <<125, 174>>
    /\ adjust_to_preferred_size(100, 200, 140, 50) = <<90, 139>>
    /\ pc = "recentered" =>
         LET centred == (rc_in.min_val + rc_in.max_val) \div 2 - rc_in.preferred_size \div 2
         IN  /\ rc_out[2] - rc_out[1] + 1 = rc_in.preferred_size
             /\ 0 <= rc_out[1] /\ rc_out[1] <= rc_out[2]
             /\ rc_out[2] < rc_in.max_dimension
             /\ (centred >= 0 /\ centred + rc_in.preferred_size - 1 < rc_in.max_dimension)
                  => rc_out[1] = centred

\* A recentring whose centred placement would start below 0 and is shifted,
\* and one whose placement would end beyond the dimension.
RecenterShiftedWitness ==
    /\ pc = "recentered"
    /\ (rc_in.min_val + rc_in.max_val) \div 2 - rc_in.preferred_size \div 2 < 0
    /\ rc_out[1] = 0
    /\ rc_in.preferred_size < rc_in.max_dimension
    /\ rc_in.preferred_size > rc_in.max_val - rc_in.min_val + 1

====
